---- MODULE Spec2Model ----
(***************************************************************************)
(* Game Time Tracker: the session aggregator (js/sqlite-handler.js), the   *)
(* statistics endpoint of the session store (server.js) and the timer of   *)
(* the tracker page (class GameTimeTracker).                               *)
(*                                                                         *)
(* Encoding of JavaScript values                                           *)
(*  - an object is a record; a property that is undefined or null is a     *)
(*    field the record does not have (Has), the empty object {} is <<>>;   *)
(*  - a variable that may hold null is <<>> (None) or <<v>> (Some(v));     *)
(*  - a timestamp is its number of milliseconds; toISOString() keeps the   *)
(*    millisecond, so the ISO string and the number name the same instant; *)
(*  - a date string YYYY-MM-DD is the tuple <<year, month, day>>: the      *)
(*    string is zero padded and of fixed width, so the order of the        *)
(*    strings is the lexicographic order of the tuples; the ISO timestamp  *)
(*    string YYYY-MM-DDTHH:mm:ss.sssZ is <<year, month, day, ms of day>>;  *)
(*  - a number that may be NaN is a record [nan, n] (Num, NaN);            *)
(*  - a JSON text is [json |-> v] for the text of the value v, and         *)
(*    [bad |-> TRUE] for a text JSON.parse rejects.                        *)
(***************************************************************************)
EXTENDS Integers, Sequences, FiniteSets, TLC

VARIABLES
    coll,            \* aggregator: the session collection handed to it
    out,             \* aggregator: the operation applied last and its result
    db,              \* server: the rows of table game_sessions
    lastId,          \* server: the last AUTOINCREMENT id of game_sessions
    now,             \* the wall clock, Date.now(), in milliseconds
    isRunning,       \* GameTimeTracker.isRunning
    startTime,       \* GameTimeTracker.startTime
    elapsedTime,     \* GameTimeTracker.elapsedTime
    currentSession,  \* GameTimeTracker.currentSession
    sessions,        \* GameTimeTracker.sessions
    timerInterval,   \* GameTimeTracker.timerInterval: the handle kept
    intervals,       \* the browser's active setInterval timers
    nextHandle,      \* the handle the next setInterval returns
    alarmTriggered,  \* GameTimeTracker.alarmTriggered
    alarmShown,      \* the alarm notification is displayed
    alarmCount,      \* how often the alarm was raised since the last start
    gameSelect,      \* the value of the game selector
    metadataShown,   \* the metadata form is displayed
    localStorage,    \* localStorage item gameSessions
    aliased,         \* the indices of sessions that hold the currentSession object
    posted,          \* the body POSTed last to /api/sessions/save
    network,         \* the requests the page sent to the server, in the order
                     \* sent, each with how far it got
    returnedEarly,   \* the handler called last, when it returned or threw with
                     \* nothing done, and "none" otherwise
    serverProcess,   \* start-app.js: the server child process
    electronProcess, \* start-app.js: the Electron child process
    launcherPc,      \* start-app.js: where the launcher process is
    attempts,        \* start-app.js: attempts of waitForServer
    isReady,         \* start-app.js: isReady of waitForServer
    exitCode         \* start-app.js: the code the launcher exited with

vars == <<coll, out, db, lastId, now, isRunning, startTime, elapsedTime, currentSession,
          sessions, timerInterval, intervals, nextHandle, alarmTriggered,
          alarmShown, alarmCount, gameSelect, metadataShown, localStorage,
          aliased, posted, network, returnedEarly, serverProcess,
          electronProcess, launcherPc, attempts, isReady, exitCode>>

launcherVars == <<serverProcess, electronProcess, launcherPc, attempts, isReady,
                  exitCode>>

aggVars == <<coll, out, db, lastId, launcherVars>>

timerVars == <<now, isRunning, startTime, elapsedTime, currentSession, sessions,
               timerInterval, intervals, nextHandle, alarmTriggered, alarmShown,
               alarmCount, gameSelect, metadataShown, localStorage, aliased,
               posted, network, returnedEarly, launcherVars>>

-----------------------------------------------------------------------------
(* Bounds of the model *)

\* the longest collection handed to the aggregator
MaxSessions == 2

\* the number of timers started, and of sessions pushed
MaxStarts == 2

\* the clock takes the instants Instant(0) .. Instant(MaxClock)
MaxClock == 2

-----------------------------------------------------------------------------
(* JavaScript values *)

None == <<>>

Some(v) == <<v>>

Has(r, f) == f \in DOMAIN r

EmptyObject == <<>>

\* a metadata that is the number 5, and no object
ScalarMeta == [scalar |-> 5]

IsObject(value) == ~Has(value, "scalar")

Num(n) == [nan |-> FALSE, n |-> n]

NaN == [nan |-> TRUE, n |-> 0]

\* a + b on numbers: NaN is absorbing
JSAdd(a, b) == IF a.nan \/ b.nan THEN NaN ELSE Num(a.n + b.n)

\* obj[key] += d: a key the object lacks reads undefined, and undefined + d
\* is NaN, stored under the new key
PlusAssign(obj, key, d) ==
    [k \in DOMAIN obj \cup {key} |->
        IF k = key
        THEN (IF key \in DOMAIN obj THEN JSAdd(obj[key], Num(d)) ELSE NaN)
        ELSE obj[k]]

RECURSIVE Gcd(_, _)
Gcd(a, b) == IF b = 0 THEN a ELSE Gcd(b, a % b)

Abs(a) == IF a < 0 THEN -a ELSE a

\* a / b, b > 0, on integers small enough for the double to be exact up to
\* rounding: two such quotients are equal doubles iff they are equal
\* fractions, so the quotient is the fraction in lowest terms
Quotient(a, b) ==
    LET g == Gcd(Abs(a), b)
    IN  [num |-> a \div g, den |-> b \div g]

Zero == [num |-> 0, den |-> 1]

-----------------------------------------------------------------------------
(* Dates *)

\* new Date(str): the date string denotes a date (days beyond 28 are left
\* out of the model: engines differ on them)
IsValidDate(date) == date[2] \in 1..12 /\ date[3] \in 1..28

\* new Date(session.date).toISOString().split('T')[0]: a YYYY-MM-DD string
\* is read as UTC midnight, a timestamp with Z as that UTC instant, and
\* the UTC date of the instant is printed; toISOString throws RangeError
\* on an Invalid Date
DateStrThrows(date) == ~IsValidDate(date)

DateStr(date) == <<date[1], date[2], date[3]>>

\* str1 < str2 in code units, on zero padded strings of fixed width
DateLess(a, b) ==
    \/ a[1] < b[1]
    \/ a[1] = b[1] /\ a[2] < b[2]
    \/ a[1] = b[1] /\ a[2] = b[2] /\ a[3] < b[3]

RECURSIVE InsertSorted(_, _)
InsertSorted(date, sorted) ==
    IF sorted = <<>> THEN <<date>>
    ELSE IF DateLess(date, Head(sorted)) THEN <<date>> \o sorted
    ELSE <<Head(sorted)>> \o InsertSorted(date, Tail(sorted))

RECURSIVE SortKeys(_)
SortKeys(keys) ==
    IF keys = <<>> THEN <<>>
    ELSE InsertSorted(Head(keys), SortKeys(Tail(keys)))

KeysUnsorted(keys) == keys

\* Object.keys(dailyData).sort()
SortedDates(keys) == SortKeys(keys)

-----------------------------------------------------------------------------
(* SQLiteHandler.prepareDailyTrendData *)

\* session.durationMinutes || 0
DurationOrZero(session) ==
    IF Has(session, "durationMinutes") THEN session.durationMinutes ELSE 0

NewBucket == [valorant |-> Num(0), kovaaks |-> Num(0)]

\* dailyData is the object of the buckets: keys in insertion order, and the
\* bucket of each key
EmptyDailyData == [keys |-> <<>>, bucket |-> <<>>]

DailyStepSkipsInit(dailyData, session) ==
    LET dateStr == DateStr(session.date)
    IN  [keys   |-> IF dateStr \in DOMAIN dailyData.bucket
                    THEN dailyData.keys ELSE Append(dailyData.keys, dateStr),
         bucket |-> [k \in DOMAIN dailyData.bucket \cup {dateStr} |->
                        IF k = dateStr
                        THEN PlusAssign(NewBucket, session.game,
                                        DurationOrZero(session))
                        ELSE dailyData.bucket[k]]]

\* one turn of the forEach: the bucket of the date is created when missing,
\* and the duration added under the session's game
DailyStep(dailyData, session) ==
    LET dateStr == DateStr(session.date)
        old     == IF dateStr \in DOMAIN dailyData.bucket
                   THEN dailyData.bucket[dateStr] ELSE NewBucket
    IN  [keys   |-> IF dateStr \in DOMAIN dailyData.bucket
                    THEN dailyData.keys ELSE Append(dailyData.keys, dateStr),
         bucket |-> [k \in DOMAIN dailyData.bucket \cup {dateStr} |->
                        IF k = dateStr
                        THEN PlusAssign(old, session.game, DurationOrZero(session))
                        ELSE dailyData.bucket[k]]]

RECURSIVE DailyLoop(_, _, _)
DailyLoop(ss, i, dailyData) ==
    IF i > Len(ss) THEN dailyData
    ELSE DailyLoop(ss, i + 1, DailyStep(dailyData, ss[i]))

\* the chart data: labels, and the data of the two datasets; threw when the
\* forEach ended in the RangeError of toISOString
prepareDailyTrendData(ss) ==
    IF \E i \in 1..Len(ss) : DateStrThrows(ss[i].date)
    THEN [threw |-> TRUE]
    ELSE LET dailyData   == DailyLoop(ss, 1, EmptyDailyData)
             sortedDates == SortedDates(dailyData.keys)
         IN  [threw    |-> FALSE,
              labels   |-> sortedDates,
              valorant |-> [i \in 1..Len(sortedDates) |->
                               dailyData.bucket[sortedDates[i]].valorant],
              kovaaks  |-> [i \in 1..Len(sortedDates) |->
                               dailyData.bucket[sortedDates[i]].kovaaks]]

-----------------------------------------------------------------------------
(* SQLiteHandler.generateSummaryStats *)

\* Object.entries(matchTypes).forEach(([type, count]) =>
\*     breakdown[type] = (breakdown[type] || 0) + count)
AddMatchTypes(breakdown, matchTypes) ==
    [type \in DOMAIN breakdown \cup DOMAIN matchTypes |->
        (IF type \in DOMAIN breakdown THEN breakdown[type] ELSE 0)
        + (IF type \in DOMAIN matchTypes THEN matchTypes[type] ELSE 0)]

\* breakdown[aimType] = (breakdown[aimType] || 0) + minutes
AddAimType(breakdown, aimType, minutes) ==
    [type \in DOMAIN breakdown \cup {aimType} |->
        (IF type \in DOMAIN breakdown THEN breakdown[type] ELSE 0)
        + (IF type = aimType THEN minutes ELSE 0)]

CarriesMatchTypesAnyGame(session) ==
    /\ Has(session, "metadata")
    /\ Has(session.metadata, "matchTypes")

\* session.game === 'valorant' && session.metadata && session.metadata.matchTypes
CarriesMatchTypes(session) ==
    /\ session.game = "valorant"
    /\ Has(session, "metadata")
    /\ Has(session.metadata, "matchTypes")

CarriesAimTypeAnyGame(session) ==
    /\ Has(session, "metadata")
    /\ Has(session.metadata, "aimType")

\* session.game === 'kovaaks' && session.metadata && session.metadata.aimType
CarriesAimType(session) ==
    /\ session.game = "kovaaks"
    /\ Has(session, "metadata")
    /\ Has(session.metadata, "aimType")

SummaryInit ==
    [totalTimeMinutes   |-> 0,
     gameBreakdown      |-> [valorant |-> Num(0), kovaaks |-> Num(0)],
     valorantMatchTypes |-> <<>>,
     kovaaksAimTypes    |-> <<>>]

SummaryStepAssigns(acc, session) ==
    LET durationMinutes == DurationOrZero(session)
    IN  [totalTimeMinutes   |-> durationMinutes,
         gameBreakdown      |->
            PlusAssign(acc.gameBreakdown, session.game, durationMinutes),
         valorantMatchTypes |->
            IF CarriesMatchTypes(session)
            THEN AddMatchTypes(acc.valorantMatchTypes, session.metadata.matchTypes)
            ELSE acc.valorantMatchTypes,
         kovaaksAimTypes    |->
            IF CarriesAimType(session)
            THEN AddAimType(acc.kovaaksAimTypes, session.metadata.aimType,
                            durationMinutes)
            ELSE acc.kovaaksAimTypes]

SummaryStepSkipsBare(acc, session) ==
    LET durationMinutes == DurationOrZero(session)
    IN  IF ~Has(session, "metadata") THEN acc
        ELSE [totalTimeMinutes   |-> acc.totalTimeMinutes + durationMinutes,
              gameBreakdown      |->
                 PlusAssign(acc.gameBreakdown, session.game, durationMinutes),
              valorantMatchTypes |->
                 IF CarriesMatchTypes(session)
                 THEN AddMatchTypes(acc.valorantMatchTypes,
                                    session.metadata.matchTypes)
                 ELSE acc.valorantMatchTypes,
              kovaaksAimTypes    |->
                 IF CarriesAimType(session)
                 THEN AddAimType(acc.kovaaksAimTypes, session.metadata.aimType,
                                 durationMinutes)
                 ELSE acc.kovaaksAimTypes]

\* one turn of the forEach
SummaryStep(acc, session) ==
    LET durationMinutes == DurationOrZero(session)
    IN  [totalTimeMinutes   |-> acc.totalTimeMinutes + durationMinutes,
         gameBreakdown      |->
            PlusAssign(acc.gameBreakdown, session.game, durationMinutes),
         valorantMatchTypes |->
            IF CarriesMatchTypes(session)
            THEN AddMatchTypes(acc.valorantMatchTypes, session.metadata.matchTypes)
            ELSE acc.valorantMatchTypes,
         kovaaksAimTypes    |->
            IF CarriesAimType(session)
            THEN AddAimType(acc.kovaaksAimTypes, session.metadata.aimType,
                            durationMinutes)
            ELSE acc.kovaaksAimTypes]

RECURSIVE SummaryLoop(_, _, _)
SummaryLoop(ss, i, acc) ==
    IF i > Len(ss) THEN acc
    ELSE SummaryLoop(ss, i + 1, SummaryStep(acc, ss[i]))

AverageFloorDiv(totalTimeMinutes, count) ==
    [num |-> totalTimeMinutes \div count, den |-> 1]

\* totalTimeMinutes / sessions.length
Average(totalTimeMinutes, count) == Quotient(totalTimeMinutes, count)

generateSummaryStats(ss) ==
    IF Len(ss) = 0
    THEN [totalSessions      |-> 0,
          totalTimeMinutes   |-> 0,
          avgSessionMinutes  |-> Zero,
          gameBreakdown      |-> [valorant |-> Num(0), kovaaks |-> Num(0)],
          valorantMatchTypes |-> <<>>,
          kovaaksAimTypes    |-> <<>>]
    ELSE LET acc == SummaryLoop(ss, 1, SummaryInit)
         IN  [totalSessions      |-> Len(ss),
              totalTimeMinutes   |-> acc.totalTimeMinutes,
              avgSessionMinutes  |-> Average(acc.totalTimeMinutes, Len(ss)),
              gameBreakdown      |-> acc.gameBreakdown,
              valorantMatchTypes |-> acc.valorantMatchTypes,
              kovaaksAimTypes    |-> acc.kovaaksAimTypes]

-----------------------------------------------------------------------------
(* server.js: the rows of game_sessions and GET /api/sessions/stats *)

\* JSON.stringify(value) and JSON.parse(text)
JSONStringify(value) == [json |-> value]

JSONParseThrows(text) == ~Has(text, "json")

JSONParse(text) == text.json

\* the row one insert.run of POST /api/sessions/save writes: metadata is
\* stringified when truthy and NULL otherwise, a null or undefined endTime or
\* durationMinutes is bound as NULL, id is the AUTOINCREMENT key
InsertedRow(session, id) ==
    [f \in {"id", "game", "date", "startTime"}
           \cup (DOMAIN session \cap {"endTime", "durationMinutes", "metadata"}) |->
        CASE f = "id" -> id
          [] f = "metadata" -> JSONStringify(session.metadata)
          [] OTHER -> session[f]]

\* the stats endpoint's forEach over the selected rows: metadata parsed, {}
\* when NULL or when JSON.parse throws
ParsedRow(row) ==
    [f \in DOMAIN row \cup {"metadata"} |->
        IF f = "metadata"
        THEN (IF Has(row, "metadata") /\ ~JSONParseThrows(row.metadata)
              THEN JSONParse(row.metadata) ELSE EmptyObject)
        ELSE row[f]]

\* SELECT SUM(durationMinutes) ... WHERE game = g: NULL values are skipped,
\* and the sum of no value is NULL
RECURSIVE SqlSum(_, _, _)
SqlSum(rows, i, games) ==
    IF i > Len(rows) THEN None
    ELSE LET rest == SqlSum(rows, i + 1, games)
         IN  IF rows[i].game \in games /\ Has(rows[i], "durationMinutes")
             THEN Some(rows[i].durationMinutes + (IF rest = None THEN 0 ELSE rest[1]))
             ELSE rest

\* .get().total || 0
TotalOrZero(total) == IF total = None THEN 0 ELSE total[1]

AllGames(rows) == {rows[i].game : i \in 1..Len(rows)}

\* the second forEach of the stats endpoint, on the parsed rows; a NULL
\* durationMinutes is null, and number + null is the number
ServerMetaStep(acc, session) ==
    [valorantMatchTypes |->
        IF CarriesMatchTypes(session)
        THEN AddMatchTypes(acc.valorantMatchTypes, session.metadata.matchTypes)
        ELSE acc.valorantMatchTypes,
     kovaaksAimTypes    |->
        IF CarriesAimType(session)
        THEN AddAimType(acc.kovaaksAimTypes, session.metadata.aimType,
                        IF Has(session, "durationMinutes")
                        THEN session.durationMinutes ELSE 0)
        ELSE acc.kovaaksAimTypes]

RECURSIVE ServerMetaLoop(_, _, _)
ServerMetaLoop(rows, i, acc) ==
    IF i > Len(rows) THEN acc
    ELSE ServerMetaLoop(rows, i + 1, ServerMetaStep(acc, ParsedRow(rows[i])))

\* totalSessions > 0 ? totalTimeMinutes / totalSessions : 0
ServerAverage(totalTimeMinutes, totalSessions) ==
    IF totalSessions > 0 THEN Quotient(totalTimeMinutes, totalSessions) ELSE Zero

\* GET /api/sessions/stats
StatsEndpoint(rows) ==
    LET totalSessions    == Len(rows)
        totalTimeMinutes == TotalOrZero(SqlSum(rows, 1, AllGames(rows)))
        meta == ServerMetaLoop(rows, 1,
                    [valorantMatchTypes |-> <<>>, kovaaksAimTypes |-> <<>>])
    IN  [totalSessions      |-> totalSessions,
         totalTimeMinutes   |-> totalTimeMinutes,
         avgSessionMinutes  |-> ServerAverage(totalTimeMinutes, totalSessions),
         gameBreakdown      |->
            [valorant |-> Num(TotalOrZero(SqlSum(rows, 1, {"valorant"}))),
             kovaaks  |-> Num(TotalOrZero(SqlSum(rows, 1, {"kovaaks"})))],
         valorantMatchTypes |-> meta.valorantMatchTypes,
         kovaaksAimTypes    |-> meta.kovaaksAimTypes]

-----------------------------------------------------------------------------
(* The session collections the aggregator is applied to *)

MkSession(game, date, start, endTime, durationMinutes, metadata) ==
    [f \in {"game", "date", "startTime"}
           \cup (IF endTime = None THEN {} ELSE {"endTime"})
           \cup (IF durationMinutes = None THEN {} ELSE {"durationMinutes"})
           \cup (IF metadata = None THEN {} ELSE {"metadata"}) |->
        CASE f = "game" -> game
          [] f = "date" -> date
          [] f = "startTime" -> start
          [] f = "endTime" -> endTime[1]
          [] f = "durationMinutes" -> durationMinutes[1]
          [] f = "metadata" -> metadata[1]]

MsPerMinute == 60000

Day1 == <<2024, 1, 1>>

Day2 == <<2024, 1, 2>>

\* 2024-01-01T10:00:00.000Z, a date stored as a timestamp
Day1Stamp == <<2024, 1, 1, 36000000>>

\* 2024-13-01: of the form YYYY-MM-DD, and no date
BadDate == <<2024, 13, 1>>

ValorantMeta ==
    { [matchTypes |-> [deathmatch |-> 0, competitive |-> 2]],
      [matchTypes |-> [competitive |-> 1, unrated |-> 3]] }

KovaaksMeta == { [aimType |-> "static-clicking"], [aimType |-> "tracking"] }

Durations == {None, Some(30), Some(45)}

PoolSession(game, date, durationMinutes, metadata) ==
    MkSession(game, date, 0,
              IF durationMinutes = None THEN Some(0)
              ELSE Some(durationMinutes[1] * MsPerMinute),
              durationMinutes, metadata)

SessionPool ==
    { PoolSession("valorant", date, d, m) :
        date \in {Day1, Day2}, d \in Durations,
        m \in {None} \cup {Some(x) : x \in ValorantMeta} }
    \cup
    { PoolSession("kovaaks", date, d, m) :
        date \in {Day1, Day2}, d \in Durations,
        m \in {Some(EmptyObject)} \cup {Some(x) : x \in KovaaksMeta} }
    \cup
    { PoolSession("valorant", Day1Stamp, Some(30), Some(m)) : m \in KovaaksMeta }
    \cup
    { PoolSession("kovaaks", Day2, Some(45), Some(m)) : m \in ValorantMeta }
    \cup
    { PoolSession("csgo", Day1, Some(30), Some(EmptyObject)),
      PoolSession("csgo", Day2, None, None),
      PoolSession("valorant", BadDate, Some(30), None),
      PoolSession("kovaaks", Day1, Some(30), Some(ScalarMeta)) }

Collections == UNION { [1..n -> SessionPool] : n \in 0..MaxSessions }

-----------------------------------------------------------------------------
(* The state after construction of the tracker page *)

\* the instants the wall clock shows, in milliseconds since
\* 2024-01-01T00:00:00.000Z
Instants == <<0, 29004, 30002, 90500, 150000, 210500>>

Instant(k) == Instants[k + 1]

ClockValues == {Instant(k) : k \in 0..MaxClock}

\* new Date().toISOString().split('T')[0] at the instant ms
DateOfInstant(ms) == <<2024, 1, 1 + (ms \div (24 * 60 * MsPerMinute))>>

\* fetch('/api/sessions/save', {method: 'POST', body: JSON.stringify({sessions})})
\* of SQLiteHandler.saveToDatabase, just sent
SaveRequest(ss) ==
    [kind |-> "save", state |-> "sent", body |-> JSONStringify([sessions |-> ss])]

\* fetch('/api/sessions/load') of SQLiteHandler.loadFromDatabase, just sent
\* on behalf of the method from of the tracker
LoadRequest(from) == [kind |-> "load", state |-> "sent", from |-> from]

\* loadSessionsFromLocalStorage() || []
loadSessionsFromLocalStorage(item) ==
    IF item = None THEN <<>> ELSE JSONParse(item[1])

\* start-app.js while the application is in use: the server answered the
\* readiness check and Electron was started
Serving ==
    /\ serverProcess = "listening"
    /\ electronProcess = "running"
    /\ launcherPc = "electron"
    /\ attempts = 0
    /\ isReady = TRUE
    /\ exitCode = None

\* the constructor of GameTimeTracker, with localStorage holding item
Constructed(item) ==
    /\ now = 0
    /\ isRunning = FALSE
    /\ startTime = None
    /\ elapsedTime = 0
    /\ currentSession = None
    /\ localStorage = item
    /\ sessions = loadSessionsFromLocalStorage(localStorage)
    /\ timerInterval = None
    /\ intervals = {}
    /\ nextHandle = 1
    /\ alarmTriggered = FALSE
    /\ alarmShown = FALSE
    /\ alarmCount = 0
    /\ gameSelect = "valorant"
    /\ metadataShown = FALSE
    /\ aliased = {}
    /\ posted = None
    /\ network = <<LoadRequest("loadFromDatabase")>>
    /\ returnedEarly = "none"

-----------------------------------------------------------------------------
(* The aggregator and the stats endpoint applied to a collection *)

AggInit ==
    /\ coll \in Collections
    /\ db = [i \in 1..Len(coll) |-> InsertedRow(coll[i], i)]
    /\ lastId = Len(coll)
    /\ out = [op |-> "none"]
    /\ Constructed(None)
    /\ Serving

CallGenerateSummaryStats ==
    /\ out' = [op |-> "generateSummaryStats", stats |-> generateSummaryStats(coll)]
    /\ UNCHANGED <<coll, db, lastId>>
    /\ UNCHANGED timerVars

CallPrepareDailyTrendData ==
    /\ out' = [op |-> "prepareDailyTrendData", chartData |-> prepareDailyTrendData(coll)]
    /\ UNCHANGED <<coll, db, lastId>>
    /\ UNCHANGED timerVars

GetStats ==
    /\ out' = [op |-> "stats", stats |-> StatsEndpoint(db)]
    /\ UNCHANGED <<coll, db, lastId>>
    /\ UNCHANGED timerVars

AggNext ==
    \/ CallGenerateSummaryStats
    \/ CallPrepareDailyTrendData
    \/ GetStats

SpecAgg == AggInit /\ [][AggNext]_vars

-----------------------------------------------------------------------------
(* class GameTimeTracker: the timer *)

\* Math.round(ms / 60000): the nearest integer, a half rounded up (toward
\* plus infinity, also below zero)
MathRound(ms) == (2 * ms + MsPerMinute) \div (2 * MsPerMinute)

\* Math.floor(ms / 60000)
MathFloor(ms) == ms \div MsPerMinute

JSNull == [null |-> TRUE]

\* the value of this.currentSession as an element of this.sessions
CurrentSessionValue == IF currentSession = None THEN JSNull ELSE currentSession[1]

\* an assignment to properties of the currentSession object shows in every
\* element of this.sessions that is the same object
Assigned(session) ==
    /\ currentSession' = Some(session)
    /\ sessions' = [i \in 1..Len(sessions) |->
                       IF i \in aliased THEN session ELSE sessions[i]]

WithField(session, field, value) ==
    [f \in DOMAIN session \cup {field} |->
        IF f = field THEN value ELSE session[f]]

\* the wall clock changes: time passes, or the clock is set (back as well)
Clock ==
    /\ now' \in ClockValues \ {now}
    /\ UNCHANGED <<isRunning, startTime, elapsedTime, currentSession, sessions,
                   timerInterval, intervals, nextHandle, alarmTriggered,
                   alarmShown, alarmCount, gameSelect, metadataShown,
                   localStorage, aliased, posted, network>>
    /\ returnedEarly' = "none"
    /\ UNCHANGED aggVars

StartTimerUnguarded ==
    /\ nextHandle <= MaxStarts
    /\ isRunning' = TRUE
    /\ startTime' = Some(now - elapsedTime)
    /\ currentSession' =
          Some(MkSession(gameSelect, DateOfInstant(now), now, None, Some(0),
                         Some(EmptyObject)))
    /\ aliased' = {}
    /\ alarmTriggered' = FALSE
    /\ alarmCount' = 0
    /\ timerInterval' = Some(nextHandle)
    /\ intervals' = intervals \cup {nextHandle}
    /\ nextHandle' = nextHandle + 1
    /\ returnedEarly' = "none"
    /\ UNCHANGED <<now, elapsedTime, sessions, alarmShown, gameSelect,
                   metadataShown, localStorage, posted, network>>
    /\ UNCHANGED aggVars

\* startTimer(): returns at once when running; else the session object is
\* created, the alarm latch reset and a new interval set
StartTimer ==
    /\ ~isRunning => nextHandle <= MaxStarts
    /\ IF isRunning
       THEN UNCHANGED <<isRunning, startTime, currentSession, aliased,
                        alarmTriggered, alarmCount, timerInterval, intervals,
                        nextHandle>>
       ELSE /\ isRunning' = TRUE
            /\ startTime' = Some(now - elapsedTime)
            /\ currentSession' =
                  Some(MkSession(gameSelect, DateOfInstant(now), now, None,
                                 Some(0), Some(EmptyObject)))
            /\ aliased' = {}
            /\ alarmTriggered' = FALSE
            /\ alarmCount' = 0
            /\ timerInterval' = Some(nextHandle)
            /\ intervals' = intervals \cup {nextHandle}
            /\ nextHandle' = nextHandle + 1
    /\ returnedEarly' = IF isRunning THEN "startTimer" ELSE "none"
    /\ UNCHANGED <<now, elapsedTime, sessions, alarmShown, gameSelect,
                   metadataShown, localStorage, posted, network>>
    /\ UNCHANGED aggVars

\* the duration showMetadataForm records: from elapsedTime, which the last
\* updateTimer set
RecordedDuration == MathRound(elapsedTime)

\* showMetadataForm() while running: the interval is cleared, endTime and
\* durationMinutes are set and the form is displayed
showMetadataForm ==
    /\ intervals' = intervals \ {timerInterval[1]}
    /\ Assigned(WithField(WithField(currentSession[1], "endTime", now),
                          "durationMinutes", RecordedDuration))
    /\ metadataShown' = TRUE
    /\ UNCHANGED <<now, isRunning, startTime, elapsedTime, timerInterval,
                   nextHandle, alarmTriggered, alarmShown, alarmCount,
                   localStorage, aliased, posted, network>>

TimerUnchanged ==
    UNCHANGED <<now, isRunning, startTime, elapsedTime, currentSession, sessions,
                timerInterval, intervals, nextHandle, alarmTriggered,
                alarmShown, alarmCount, metadataShown, localStorage, aliased,
                posted, network>>

\* the End button: showMetadataForm(), which returns at once when not running
ShowMetadataForm ==
    /\ IF isRunning THEN showMetadataForm ELSE TimerUnchanged
    /\ returnedEarly' = IF isRunning THEN "none" ELSE "showMetadataForm"
    /\ UNCHANGED gameSelect
    /\ UNCHANGED aggVars

ChangeGameDeclineKeepsSelection(game, confirmed) ==
    /\ game # gameSelect
    /\ IF ~isRunning
       THEN gameSelect' = game /\ TimerUnchanged
       ELSE IF confirmed
            THEN gameSelect' = game /\ showMetadataForm
            ELSE gameSelect' = game /\ TimerUnchanged
    /\ returnedEarly' = "none"
    /\ UNCHANGED aggVars

\* the change event of the game selector, the selection now being game: when
\* running, confirm() decides between endTimer() and restoring the selection
ChangeGame(game, confirmed) ==
    /\ game # gameSelect
    /\ IF ~isRunning
       THEN gameSelect' = game /\ TimerUnchanged
       ELSE IF confirmed
            THEN gameSelect' = game /\ showMetadataForm
            ELSE gameSelect' = currentSession[1].game /\ TimerUnchanged
    /\ returnedEarly' = "none"
    /\ UNCHANGED aggVars

\* the save requests sent so far
SaveRequests == SelectSeq(network, LAMBDA m : m.kind = "save")

completeSessionKeepsElapsed(session) ==
    /\ Len(sessions) < MaxStarts
    /\ Len(SaveRequests) < MaxStarts
    /\ LET pushed == Append(IF currentSession = None THEN sessions
                            ELSE [i \in 1..Len(sessions) |->
                                     IF i \in aliased THEN session ELSE sessions[i]],
                            session)
       IN  /\ sessions' = pushed
           /\ localStorage' = Some(JSONStringify(pushed))
           /\ posted' = Some(JSONStringify([sessions |-> pushed]))
           /\ network' = Append(network, SaveRequest(pushed))
    /\ aliased' = IF currentSession = None THEN aliased
                  ELSE aliased \cup {Len(sessions) + 1}
    /\ isRunning' = FALSE
    /\ metadataShown' = FALSE
    /\ UNCHANGED <<now, startTime, elapsedTime, timerInterval, intervals,
                   nextHandle, alarmTriggered, alarmShown, alarmCount, gameSelect>>

\* completeSession(), the currentSession object being session: it is pushed,
\* the collection cached and POSTed, and the timer reset
completeSession(session) ==
    /\ Len(sessions) < MaxStarts
    /\ Len(SaveRequests) < MaxStarts
    /\ LET pushed == Append(IF currentSession = None THEN sessions
                            ELSE [i \in 1..Len(sessions) |->
                                     IF i \in aliased THEN session ELSE sessions[i]],
                            session)
       IN  /\ sessions' = pushed
           /\ localStorage' = Some(JSONStringify(pushed))
           /\ posted' = Some(JSONStringify([sessions |-> pushed]))
           /\ network' = Append(network, SaveRequest(pushed))
    /\ aliased' = IF currentSession = None THEN aliased
                  ELSE aliased \cup {Len(sessions) + 1}
    /\ elapsedTime' = 0
    /\ isRunning' = FALSE
    /\ metadataShown' = FALSE
    /\ UNCHANGED <<now, startTime, timerInterval, intervals, nextHandle,
                   alarmTriggered, alarmShown, alarmCount, gameSelect>>

\* the options of the game selector
GameOptions == {"valorant", "kovaaks"}

\* the match counts typed into the form: parseInt(value) || 0 of each input
MatchCountInputs ==
    { [deathmatch |-> 0, competitive |-> 2, unrated |-> 0, spikeRush |-> 0] }

AimTypeOptions == {"tracking"}

\* saveValorantMetadata(): with no currentSession the assignment of metadata
\* throws TypeError and nothing is done
SaveValorantMetadata(matchTypes) ==
    /\ IF currentSession = None
       THEN TimerUnchanged /\ UNCHANGED gameSelect
       ELSE /\ currentSession' =
                  Some(WithField(currentSession[1], "metadata",
                                 [matchTypes |-> matchTypes]))
            /\ completeSession(WithField(currentSession[1], "metadata",
                                         [matchTypes |-> matchTypes]))
    /\ returnedEarly' = IF currentSession = None THEN "saveValorantMetadata" ELSE "none"
    /\ UNCHANGED aggVars

\* saveKovaaksMetadata()
SaveKovaaksMetadata(aimType) ==
    /\ IF currentSession = None
       THEN TimerUnchanged /\ UNCHANGED gameSelect
       ELSE /\ currentSession' =
                  Some(WithField(currentSession[1], "metadata",
                                 [aimType |-> aimType]))
            /\ completeSession(WithField(currentSession[1], "metadata",
                                         [aimType |-> aimType]))
    /\ returnedEarly' = IF currentSession = None THEN "saveKovaaksMetadata" ELSE "none"
    /\ UNCHANGED aggVars

\* cancelMetadata(): the session is completed as it is
CancelMetadata ==
    /\ completeSession(CurrentSessionValue)
    /\ UNCHANGED currentSession
    /\ returnedEarly' = "none"
    /\ UNCHANGED aggVars

hourlyAlarmThreshold == 60

\* the forEach of checkKovaaksTimeThreshold throws TypeError on an element
\* that is null
ThresholdCheckThrows == \E i \in 1..Len(sessions) : sessions[i] = JSNull

RECURSIVE TodayKovaaksLoop(_, _)
TodayKovaaksLoop(i, today) ==
    IF i > Len(sessions) THEN 0
    ELSE (IF sessions[i].game = "kovaaks" /\ sessions[i].date = today
          THEN DurationOrZero(sessions[i]) ELSE 0)
         + TodayKovaaksLoop(i + 1, today)

\* todayKovaaksMinutes of checkKovaaksTimeThreshold, elapsedTime being ms
todayKovaaksMinutes(ms) ==
    TodayKovaaksLoop(1, DateOfInstant(now)) + MathFloor(ms)

AlarmDueUnlatched(ms) ==
    /\ currentSession # None
    /\ currentSession[1].game = "kovaaks"
    /\ ~ThresholdCheckThrows
    /\ todayKovaaksMinutes(ms) >= hourlyAlarmThreshold

\* updateTimer() decides to raise the alarm
AlarmDue(ms) ==
    /\ currentSession # None
    /\ currentSession[1].game = "kovaaks"
    /\ ~alarmTriggered
    /\ ~ThresholdCheckThrows
    /\ todayKovaaksMinutes(ms) >= hourlyAlarmThreshold

\* a tick of an active interval: updateTimer()
UpdateTimer ==
    /\ intervals # {}
    /\ elapsedTime' = now - startTime[1]
    /\ IF AlarmDue(now - startTime[1])
       THEN /\ alarmTriggered' = TRUE
            /\ alarmShown' = TRUE
            /\ alarmCount' = alarmCount + 1
       ELSE UNCHANGED <<alarmTriggered, alarmShown, alarmCount>>
    /\ returnedEarly' = "none"
    /\ UNCHANGED <<now, isRunning, startTime, currentSession, sessions,
                   timerInterval, intervals, nextHandle, gameSelect,
                   metadataShown, localStorage, aliased, posted, network>>
    /\ UNCHANGED aggVars

DismissAlarmResetsLatch ==
    /\ alarmShown' = FALSE
    /\ alarmTriggered' = FALSE
    /\ returnedEarly' = "none"
    /\ UNCHANGED <<now, isRunning, startTime, elapsedTime, currentSession,
                   sessions, timerInterval, intervals, nextHandle,
                   alarmCount, gameSelect, metadataShown,
                   localStorage, aliased, posted, network>>
    /\ UNCHANGED aggVars

\* dismissAlarm(): the sound is stopped and the notification hidden
DismissAlarm ==
    /\ alarmShown' = FALSE
    /\ returnedEarly' = "none"
    /\ UNCHANGED <<now, isRunning, startTime, elapsedTime, currentSession,
                   sessions, timerInterval, intervals, nextHandle,
                   alarmTriggered, alarmCount, gameSelect, metadataShown,
                   localStorage, aliased, posted, network>>
    /\ UNCHANGED aggVars

Init ==
    /\ Constructed(None)
    /\ coll = <<>>
    /\ out = [op |-> "none"]
    /\ db = <<>>
    /\ lastId = 0
    /\ Serving

Next ==
    \/ Clock
    \/ StartTimer
    \/ ShowMetadataForm
    \/ \E game \in GameOptions, confirmed \in BOOLEAN : ChangeGame(game, confirmed)
    \/ \E matchTypes \in MatchCountInputs : SaveValorantMetadata(matchTypes)
    \/ \E aimType \in AimTypeOptions : SaveKovaaksMetadata(aimType)
    \/ CancelMetadata
    \/ UpdateTimer
    \/ DismissAlarm

Spec == Init /\ [][Next]_vars

\* localStorage of a page opened after an hour of kovaaks on the same day
HourCached ==
    Some(JSONStringify(<<MkSession("kovaaks", DateOfInstant(0), 0,
                                   Some(hourlyAlarmThreshold * MsPerMinute),
                                   Some(hourlyAlarmThreshold),
                                   Some([aimType |-> "tracking"]))>>))

\* localStorage of a page opened one minute short of the hour
AlmostHourCached ==
    Some(JSONStringify(<<MkSession("kovaaks", DateOfInstant(0), 0,
                                   Some((hourlyAlarmThreshold - 1) * MsPerMinute),
                                   Some(hourlyAlarmThreshold - 1),
                                   Some([aimType |-> "tracking"]))>>))

AlarmCached == {HourCached, AlmostHourCached}

AlarmInit ==
    /\ \E item \in AlarmCached : Constructed(item)
    /\ coll = <<>>
    /\ out = [op |-> "none"]
    /\ db = <<>>
    /\ lastId = 0
    /\ Serving

SpecAlarm == AlarmInit /\ [][Next]_vars

-----------------------------------------------------------------------------
(* server.js: POST /api/sessions/save and GET /api/sessions/load *)

\* the longest sessions array of a save request
MaxStored == 2

\* the AUTOINCREMENT ids the table hands out
MaxRowId == 4

\* 2024-13-01T00:00:00.000Z: not of the form YYYY-MM-DD, and no date
BadStamp == <<2024, 13, 1, 0>>

\* session.date.match(/^\d{4}-\d{2}-\d{2}$/)
MatchesYMD(date) == Len(date) = 3

\* the loop body throws: session is null (TypeError on session.metadata), or
\* NULL is bound to one of the NOT NULL columns game, date, startTime
InsertThrows(session) ==
    \/ session = JSNull
    \/ ~Has(session, "game")
    \/ ~Has(session, "date")
    \/ ~Has(session, "startTime")

\* the rows the insert loop writes, the table's last id being id
InsertAll(ss, id) ==
    [i \in 1..Len(ss) |-> InsertedRow(ss[i], id + i)]

RECURSIVE InsertedBeforeThrow(_, _, _)
InsertedBeforeThrow(ss, i, id) ==
    IF i > Len(ss) \/ InsertThrows(ss[i]) THEN <<>>
    ELSE <<InsertedRow(ss[i], id + i)>>
         \o InsertedBeforeThrow(ss, i + 1, id)

TransactionNotAtomic(rows, ss) ==
    InsertedBeforeThrow(ss, 1, lastId)

TransactionAppends(rows, ss) ==
    IF \E i \in 1..Len(ss) : InsertThrows(ss[i])
    THEN rows
    ELSE rows \o InsertAll(ss, lastId)

TransactionDeletesOnly(rows, ss) ==
    IF \E i \in 1..Len(ss) : InsertThrows(ss[i])
    THEN rows
    ELSE <<>>

\* db.transaction(...)(ss): DELETE FROM game_sessions and the inserts,
\* rolled back together when the function throws
Transaction(rows, ss) ==
    IF \E i \in 1..Len(ss) : InsertThrows(ss[i])
    THEN rows
    ELSE InsertAll(ss, lastId)

\* the body of a save request: kind tells whether body.sessions is an array,
\* something else, or missing
ArrayBody(ss) == [kind |-> "array", sessions |-> ss]

NotArrayBody == [kind |-> "notArray", sessions |-> <<>>]

MissingBody == [kind |-> "missing", sessions |-> <<>>]

\* POST /api/sessions/save
PostSave(body) ==
    /\ lastId + Len(body.sessions) <= MaxRowId
    /\ IF body.kind # "array"
       THEN /\ out' = [op |-> "save", status |-> 400]
            /\ UNCHANGED <<coll, db, lastId>>
       ELSE IF \E i \in 1..Len(body.sessions) : InsertThrows(body.sessions[i])
       THEN /\ out' = [op |-> "save", status |-> 500]
            /\ db' = Transaction(db, body.sessions)
            /\ UNCHANGED <<coll, lastId>>
       ELSE /\ out' = [op |-> "save", status |-> 200]
            /\ db' = Transaction(db, body.sessions)
            /\ lastId' = lastId + Len(body.sessions)
            /\ coll' = Some(body.sessions)
    /\ UNCHANGED timerVars

\* new Date(session.date).toISOString() of the load endpoint throws
LoadDateThrows(row) == ~MatchesYMD(row.date) /\ DateStrThrows(row.date)

\* the date of a loaded session: kept when of the form YYYY-MM-DD
LoadedDate(date) == IF MatchesYMD(date) THEN date ELSE DateStr(date)

\* one turn of the forEach of the load endpoint
LoadedRow(row) ==
    [f \in DOMAIN row \cup {"metadata"} |->
        CASE f = "metadata" ->
                 (IF Has(row, "metadata") /\ ~JSONParseThrows(row.metadata)
                  THEN JSONParse(row.metadata) ELSE EmptyObject)
          [] f = "date" -> LoadedDate(row.date)
          [] OTHER -> row[f]]

\* the response of GET /api/sessions/load
LoadEndpoint(rows) ==
    IF \E i \in 1..Len(rows) : LoadDateThrows(rows[i])
    THEN [op |-> "load", status |-> 500]
    ELSE [op |-> "load", status |-> 200,
          sessions |-> [i \in 1..Len(rows) |-> LoadedRow(rows[i])]]

GetLoad ==
    /\ out' = LoadEndpoint(db)
    /\ UNCHANGED <<coll, db, lastId>>
    /\ UNCHANGED timerVars

\* the sessions SQLiteHandler.loadFromDatabase resolves with, the response
\* being ok: dates and metadata are converted once more
ClientLoaded(ss) ==
    [i \in 1..Len(ss) |->
        [f \in DOMAIN ss[i] |->
            IF f = "date" THEN LoadedDate(ss[i].date) ELSE ss[i][f]]]

\* the records of save requests
StorePool ==
    { PoolSession("valorant", Day1, Some(30), Some([matchTypes |-> [competitive |-> 2]])),
      PoolSession("kovaaks", Day2, Some(45), Some([aimType |-> "tracking"])),
      PoolSession("valorant", Day1Stamp, Some(30), None),
      PoolSession("kovaaks", BadStamp, None, Some(EmptyObject)),
      PoolSession("csgo", Day1, Some(30), Some(EmptyObject)),
      PoolSession("kovaaks", Day1, Some(30), Some(ScalarMeta)),
      JSNull,
      [date |-> Day1, startTime |-> 0] }

SaveBodies ==
    {NotArrayBody, MissingBody}
    \cup { ArrayBody(ss) : ss \in UNION { [1..n -> StorePool] : n \in 0..MaxStored } }

\* a row written by another program: its metadata is no JSON text
ForeignRow ==
    [id |-> 1, game |-> "valorant", date |-> Day1, startTime |-> 0,
     endTime |-> 30 * MsPerMinute, durationMinutes |-> 30,
     metadata |-> [bad |-> TRUE]]

StoreInit ==
    /\ db \in {<<>>, <<ForeignRow>>}
    /\ lastId = Len(db)
    /\ coll = None
    /\ out = [op |-> "none"]
    /\ Constructed(None)
    /\ Serving

StoreNext ==
    \/ \E body \in SaveBodies : PostSave(body)
    \/ GetLoad
    \/ GetStats

SpecStore == StoreInit /\ [][StoreNext]_vars

-----------------------------------------------------------------------------
(* class GameTimeTracker: loading the collection from the store *)

\* what the promise of sqliteHandler.loadFromDatabase() settles with: Some of
\* the sessions when the server is reached and answers 200, None (rejected)
\* otherwise
Fetched(reachable) ==
    IF reachable /\ LoadEndpoint(db).status = 200
    THEN Some(ClientLoaded(LoadEndpoint(db).sessions))
    ELSE None

LoadUnchanged ==
    UNCHANGED <<now, isRunning, startTime, elapsedTime, currentSession,
                timerInterval, intervals, nextHandle, alarmTriggered,
                alarmShown, alarmCount, gameSelect, metadataShown, posted,
                network, returnedEarly, coll, db, lastId, launcherVars>>

loadFromDatabaseKeepsCache(loaded) ==
    IF loaded # None
    THEN /\ sessions' = loaded[1]
         /\ aliased' = {}
         /\ UNCHANGED localStorage
    ELSE UNCHANGED <<sessions, localStorage, aliased>>

\* the then and catch of loadFromDatabase(), the promise settled with
\* loaded: the sessions replace the collection and are cached; a rejection is
\* reported only
loadFromDatabase(loaded) ==
    IF loaded # None
    THEN /\ sessions' = loaded[1]
         /\ localStorage' = Some(JSONStringify(loaded[1]))
         /\ aliased' = {}
    ELSE UNCHANGED <<sessions, localStorage, aliased>>

\* loadFromDatabase() with its promise settled at once
LoadFromDatabase(reachable) ==
    /\ loadFromDatabase(Fetched(reachable))
    /\ out' = [op |-> "loadFromDatabase", resolved |-> Fetched(reachable)]
    /\ LoadUnchanged

\* the then and catch of loadFromDefaultLocation(), the promise settled with
\* loaded: sessions that are not empty replace the collection and are cached;
\* otherwise, and on rejection, a cached collection that is not empty
\* replaces it
loadFromDefaultLocation(loaded) ==
    LET localSessions == loadSessionsFromLocalStorage(localStorage)
    IN  IF loaded # None /\ Len(loaded[1]) > 0
        THEN /\ sessions' = loaded[1]
             /\ localStorage' = Some(JSONStringify(loaded[1]))
             /\ aliased' = {}
        ELSE IF Len(localSessions) > 0
        THEN /\ sessions' = localSessions
             /\ aliased' = {}
             /\ UNCHANGED localStorage
        ELSE UNCHANGED <<sessions, localStorage, aliased>>

\* loadFromDefaultLocation() with its promise settled at once
LoadFromDefaultLocation(reachable) ==
    /\ loadFromDefaultLocation(Fetched(reachable))
    /\ out' = [op |-> "loadFromDefaultLocation", resolved |-> Fetched(reachable)]
    /\ LoadUnchanged

\* the records of the stored collections that are loaded
LoadPool == {session \in StorePool : ~InsertThrows(session)}

StoredCollections ==
    { InsertAll(ss, 0) : ss \in UNION { [1..n -> LoadPool] : n \in 0..MaxStored } }

\* localStorage when the page is opened: no item, or the cache of an earlier
\* visit
CachedItems ==
    { None,
      Some(JSONStringify(<<>>)),
      Some(JSONStringify(<<MkSession("kovaaks", Day1, 0, Some(MsPerMinute), Some(1),
                                     Some([aimType |-> "tracking"]))>>)) }

LoadInit ==
    /\ db \in StoredCollections
    /\ lastId = Len(db)
    /\ coll = None
    /\ out = [op |-> "none"]
    /\ \E item \in CachedItems : Constructed(item)
    /\ Serving

LoadNext ==
    \/ \E reachable \in BOOLEAN : LoadFromDatabase(reachable)
    \/ \E reachable \in BOOLEAN : LoadFromDefaultLocation(reachable)

SpecLoad == LoadInit /\ [][LoadNext]_vars

-----------------------------------------------------------------------------
(* The page and the server with requests in flight *)

\* the setTimeout of the DOMContentLoaded listener fires:
\* loadFromDefaultLocation() sends its request
StartupTimeout ==
    /\ \A k \in 1..Len(network) :
          ~(network[k].kind = "load" /\ network[k].from = "loadFromDefaultLocation")
    /\ network' = Append(network, LoadRequest("loadFromDefaultLocation"))
    /\ UNCHANGED <<now, isRunning, startTime, elapsedTime, currentSession,
                   sessions, timerInterval, intervals, nextHandle,
                   alarmTriggered, alarmShown, alarmCount, gameSelect,
                   metadataShown, localStorage, aliased, posted>>
    /\ returnedEarly' = "none"
    /\ UNCHANGED aggVars

\* the page's state is untouched by what the server does
PageUnchanged ==
    UNCHANGED <<now, isRunning, startTime, elapsedTime, currentSession, sessions,
                timerInterval, intervals, nextHandle, alarmTriggered,
                alarmShown, alarmCount, gameSelect, metadataShown, localStorage,
                aliased, posted, returnedEarly, launcherVars>>

\* request k after the server answered it with status, or after the fetch
\* failed (status 0)
Settled(k, status) ==
    [network EXCEPT ![k] =
        [f \in DOMAIN network[k] \cup {"status"} |->
            CASE f = "state" -> "done"
              [] f = "status" -> status
              [] OTHER -> network[k][f]]]

\* the save request k reaches POST /api/sessions/save, or fails to; the
\* page's then and catch change nothing of the tracker
ServerSave(k, reachable) ==
    /\ network[k].kind = "save"
    /\ network[k].state = "sent"
    /\ LET ss == JSONParse(network[k].body).sessions
       IN  IF ~reachable
           THEN /\ network' = Settled(k, 0)
                /\ UNCHANGED <<coll, out, db, lastId>>
           ELSE IF \E i \in 1..Len(ss) : InsertThrows(ss[i])
           THEN /\ network' = Settled(k, 500)
                /\ out' = [op |-> "save", status |-> 500]
                /\ db' = Transaction(db, ss)
                /\ UNCHANGED <<coll, lastId>>
           ELSE /\ network' = Settled(k, 200)
                /\ out' = [op |-> "save", status |-> 200]
                /\ db' = Transaction(db, ss)
                /\ lastId' = lastId + Len(ss)
                /\ coll' = Some(ss)
    /\ PageUnchanged

\* the load request k reaches GET /api/sessions/load, or fails to: the
\* response is on its way to the page
ServerLoad(k, reachable) ==
    /\ network[k].kind = "load"
    /\ network[k].state = "sent"
    /\ network' = [network EXCEPT ![k] =
                      [kind |-> "load", from |-> network[k].from,
                       state |-> "answered", resolved |-> Fetched(reachable)]]
    /\ out' = IF reachable THEN LoadEndpoint(db) ELSE out
    /\ UNCHANGED <<coll, db, lastId>>
    /\ PageUnchanged

\* the response of load request k arrives at the page: the then or the catch
\* of the method that sent it runs
ReceiveLoad(k) ==
    /\ network[k].kind = "load"
    /\ network[k].state = "answered"
    /\ IF network[k].from = "loadFromDatabase"
       THEN loadFromDatabase(network[k].resolved)
       ELSE loadFromDefaultLocation(network[k].resolved)
    /\ network' = [network EXCEPT ![k] =
                      [kind |-> "load", from |-> network[k].from,
                       state |-> "done", resolved |-> network[k].resolved,
                       status |-> IF network[k].resolved = None THEN 0 ELSE 200]]
    /\ UNCHANGED <<now, isRunning, startTime, elapsedTime, currentSession,
                   timerInterval, intervals, nextHandle, alarmTriggered,
                   alarmShown, alarmCount, gameSelect, metadataShown, posted>>
    /\ returnedEarly' = "none"
    /\ UNCHANGED aggVars

\* the collection stored when the page is opened
SyncStored ==
    { <<>>,
      InsertAll(<<MkSession("valorant", Day1, 0, Some(30 * MsPerMinute), Some(30),
                            Some([matchTypes |-> [competitive |-> 2]]))>>, 0) }

SyncInit ==
    /\ db \in SyncStored
    /\ lastId = Len(db)
    /\ coll = None
    /\ out = [op |-> "none"]
    /\ \E item \in CachedItems : Constructed(item)
    /\ Serving

SyncNext ==
    \/ StartTimer
    \/ ShowMetadataForm
    \/ \E aimType \in AimTypeOptions : SaveKovaaksMetadata(aimType)
    \/ CancelMetadata
    \/ StartupTimeout
    \/ \E k \in 1..Len(network), reachable \in BOOLEAN : ServerSave(k, reachable)
    \/ \E k \in 1..Len(network), reachable \in BOOLEAN : ServerLoad(k, reachable)
    \/ \E k \in 1..Len(network) : ReceiveLoad(k)

SpecSync == SyncInit /\ [][SyncNext]_vars

-----------------------------------------------------------------------------
(* Properties of the aggregator, under SpecAgg *)

Minutes(session) ==
    IF "durationMinutes" \in DOMAIN session THEN session.durationMinutes ELSE 0

\* the sum of durationMinutes over the sessions of ss at the indices I
RECURSIVE SumMinutes(_, _)
SumMinutes(ss, I) ==
    IF I = {} THEN 0
    ELSE LET i == CHOOSE x \in I : TRUE
         IN  Minutes(ss[i]) + SumMinutes(ss, I \ {i})

Indices(ss) == 1..Len(ss)

OfGame(ss, game) == {i \in Indices(ss) : ss[i].game = game}

OnDate(ss, date) ==
    {i \in Indices(ss) : <<ss[i].date[1], ss[i].date[2], ss[i].date[3]>> = date}

KnownGames == {"valorant", "kovaaks"}

OfKnownGame(ss) == {i \in Indices(ss) : ss[i].game \in KnownGames}

Summarized == out.op = "generateSummaryStats"

ServerSummarized == out.op = "stats"

Charted == out.op = "prepareDailyTrendData" /\ ~out.chartData.threw

\* C1: generateSummaryStats returns totalSessions equal to the number of
\* records and totalTimeMinutes equal to the sum of durationMinutes, a record
\* without durationMinutes counting 0, and 0 for both on the empty collection.
C1_Totals ==
    Summarized =>
        /\ out.stats.totalSessions = Len(coll)
        /\ out.stats.totalTimeMinutes = SumMinutes(coll, Indices(coll))
        /\ (coll = <<>> =>
                out.stats.totalSessions = 0 /\ out.stats.totalTimeMinutes = 0)

C1_Witness ==
    /\ Summarized
    /\ Len(coll) = 2
    /\ "durationMinutes" \notin DOMAIN coll[1]
    /\ "durationMinutes" \in DOMAIN coll[2]
    /\ out.stats.totalTimeMinutes = 45

\* C2: avgSessionMinutes is totalTimeMinutes / totalSessions on a non-empty
\* collection and exactly 0 on the empty one, in the client aggregator and in
\* the stats endpoint (a fraction num/den equals t/n iff num * n = t * den).
C2_Average ==
    (Summarized \/ ServerSummarized) =>
        LET stats == out.stats
            avg   == stats.avgSessionMinutes
        IN  /\ stats.totalSessions = Len(coll)
            /\ stats.totalSessions = 0 => avg = [num |-> 0, den |-> 1]
            /\ stats.totalSessions > 0 =>
                  /\ avg.den > 0
                  /\ avg.num * stats.totalSessions = stats.totalTimeMinutes * avg.den

C2_Witness ==
    /\ ServerSummarized
    /\ Len(db) = 2
    /\ out.stats.totalTimeMinutes = 75
    /\ out.stats.avgSessionMinutes = [num |-> 75, den |-> 2]

StrictlyAscending(labels) ==
    \A i, j \in 1..Len(labels) : i < j =>
        \/ labels[i][1] < labels[j][1]
        \/ labels[i][1] = labels[j][1] /\ labels[i][2] < labels[j][2]
        \/ /\ labels[i][1] = labels[j][1] /\ labels[i][2] = labels[j][2]
           /\ labels[i][3] < labels[j][3]

\* C3 as stated: the output dates are strictly ascending without duplicates,
\* and for each output date the per-game minutes sum to the durationMinutes
\* of all sessions of that date.
C3_AsStated ==
    Charted =>
        LET chartData == out.chartData
        IN  /\ StrictlyAscending(chartData.labels)
            /\ \A i \in 1..Len(chartData.labels) :
                  /\ ~chartData.valorant[i].nan
                  /\ ~chartData.kovaaks[i].nan
                  /\ chartData.valorant[i].n + chartData.kovaaks[i].n
                        = SumMinutes(coll, OnDate(coll, chartData.labels[i]))

\* C3 amended: the output dates are strictly ascending without duplicates,
\* and for each output date the per-game minutes sum to the durationMinutes
\* of the sessions of that date whose game is valorant or kovaaks.
C3_DatesAscendingAndSums ==
    Charted =>
        LET chartData == out.chartData
        IN  /\ StrictlyAscending(chartData.labels)
            /\ \A i \in 1..Len(chartData.labels) :
                  /\ ~chartData.valorant[i].nan
                  /\ ~chartData.kovaaks[i].nan
                  /\ chartData.valorant[i].n + chartData.kovaaks[i].n
                        = SumMinutes(coll, OnDate(coll, chartData.labels[i])
                                              \cap OfKnownGame(coll))

C3_Witness ==
    /\ Charted
    /\ Len(coll) = 2
    /\ coll[1].date = <<2024, 1, 2>>
    /\ coll[2].date = <<2024, 1, 1>>
    /\ out.chartData.labels = << <<2024, 1, 1>>, <<2024, 1, 2>> >>
    /\ out.chartData.valorant[1].n + out.chartData.kovaaks[1].n = 30
    /\ out.chartData.valorant[2].n + out.chartData.kovaaks[2].n = 45

\* C4: prepareDailyTrendData outputs exactly the dates that occur in the
\* input, each with, for valorant and for kovaaks, the sum of durationMinutes
\* (missing as 0) of the sessions of that date and game, 0 when there are
\* none; the empty input gives the empty result; it fails only on a record
\* whose date string denotes no date.
C4_DailyBuckets ==
    /\ out.op = "prepareDailyTrendData" /\ out.chartData.threw =>
          \E i \in Indices(coll) :
              ~(coll[i].date[2] \in 1..12 /\ coll[i].date[3] \in 1..28)
    /\ Charted =>
          LET chartData == out.chartData
              labels    == chartData.labels
          IN  /\ {labels[i] : i \in 1..Len(labels)}
                    = {<<coll[i].date[1], coll[i].date[2], coll[i].date[3]>> :
                          i \in Indices(coll)}
              /\ Len(chartData.valorant) = Len(labels)
              /\ Len(chartData.kovaaks) = Len(labels)
              /\ \A i \in 1..Len(labels) :
                    /\ chartData.valorant[i]
                          = [nan |-> FALSE,
                             n |-> SumMinutes(coll, OnDate(coll, labels[i])
                                                   \cap OfGame(coll, "valorant"))]
                    /\ chartData.kovaaks[i]
                          = [nan |-> FALSE,
                             n |-> SumMinutes(coll, OnDate(coll, labels[i])
                                                   \cap OfGame(coll, "kovaaks"))]
              /\ (coll = <<>> => labels = <<>>)

C4_Witness ==
    /\ Charted
    /\ Len(coll) = 2
    /\ coll[1].date = <<2024, 1, 1, 36000000>>
    /\ coll[2].date = <<2024, 1, 1>>
    /\ coll[2].game = "valorant"
    /\ out.chartData.labels = << <<2024, 1, 1>> >>
    /\ out.chartData.valorant[1].n = 75
    /\ out.chartData.kovaaks[1].n = 0

\* C5: gameBreakdown of generateSummaryStats has exactly the keys valorant
\* and kovaaks, each with the sum of durationMinutes of that game's sessions;
\* a session of another game is counted in totalSessions and
\* totalTimeMinutes and adds no entry to gameBreakdown.
C5_GameBreakdown ==
    Summarized =>
        LET stats == out.stats
        IN  /\ DOMAIN stats.gameBreakdown = {"valorant", "kovaaks"}
            /\ stats.gameBreakdown.valorant
                  = [nan |-> FALSE, n |-> SumMinutes(coll, OfGame(coll, "valorant"))]
            /\ stats.gameBreakdown.kovaaks
                  = [nan |-> FALSE, n |-> SumMinutes(coll, OfGame(coll, "kovaaks"))]
            /\ stats.totalSessions = Len(coll)
            /\ stats.totalTimeMinutes = SumMinutes(coll, Indices(coll))

\* the valorant sessions whose metadata carries matchTypes
WithMatchTypes(ss) ==
    {i \in Indices(ss) :
        /\ ss[i].game = "valorant"
        /\ "metadata" \in DOMAIN ss[i]
        /\ "matchTypes" \in DOMAIN ss[i].metadata}

RECURSIVE SumCounts(_, _, _)
SumCounts(ss, I, label) ==
    IF I = {} THEN 0
    ELSE LET i == CHOOSE x \in I : TRUE
             matchTypes == ss[i].metadata.matchTypes
         IN  (IF label \in DOMAIN matchTypes THEN matchTypes[label] ELSE 0)
             + SumCounts(ss, I \ {i}, label)

\* C6: the match-type breakdown, of the client aggregator and of the stats
\* endpoint, has as keys exactly the labels that occur in the matchTypes of
\* the valorant sessions carrying matchTypes, each with the sum of its counts
\* over those sessions; other sessions contribute nothing.
C6_MatchTypeBreakdown ==
    (Summarized \/ ServerSummarized) =>
        LET breakdown == out.stats.valorantMatchTypes
            counted   == WithMatchTypes(coll)
        IN  /\ DOMAIN breakdown
                  = UNION {DOMAIN coll[i].metadata.matchTypes : i \in counted}
            /\ \A label \in DOMAIN breakdown :
                  breakdown[label] = SumCounts(coll, counted, label)

C6_Witness ==
    /\ Summarized
    /\ Len(coll) = 2
    /\ WithMatchTypes(coll) = {1, 2}
    /\ coll[1].metadata # coll[2].metadata
    /\ DOMAIN out.stats.valorantMatchTypes = {"deathmatch", "competitive", "unrated"}
    /\ out.stats.valorantMatchTypes["competitive"] = 3
    /\ out.stats.valorantMatchTypes["deathmatch"] = 0

\* the kovaaks sessions whose metadata carries aimType
WithAimType(ss) ==
    {i \in Indices(ss) :
        /\ ss[i].game = "kovaaks"
        /\ "metadata" \in DOMAIN ss[i]
        /\ "aimType" \in DOMAIN ss[i].metadata}

\* C7: the aim-type breakdown, of the client aggregator and of the stats
\* endpoint, has as keys exactly the aimType labels of the kovaaks sessions
\* carrying aimType, each with the sum of durationMinutes of the kovaaks
\* sessions of that label; other sessions contribute nothing.
C7_AimTypeBreakdown ==
    (Summarized \/ ServerSummarized) =>
        LET breakdown == out.stats.kovaaksAimTypes
            counted   == WithAimType(coll)
        IN  /\ DOMAIN breakdown = {coll[i].metadata.aimType : i \in counted}
            /\ \A label \in DOMAIN breakdown :
                  breakdown[label]
                     = SumMinutes(coll, {i \in counted :
                                            coll[i].metadata.aimType = label})

C7_Witness ==
    /\ ServerSummarized
    /\ Len(coll) = 2
    /\ WithAimType(coll) = {1}
    /\ coll[2].game = "valorant"
    /\ "metadata" \in DOMAIN coll[2]
    /\ "aimType" \in DOMAIN coll[2].metadata
    /\ coll[2].metadata.aimType = "tracking"
    /\ out.stats.kovaaksAimTypes = [c \in {"static-clicking"} |-> 45]

-----------------------------------------------------------------------------
(* Properties of the timer, under Spec *)

\* the period of the tick startTimer sets: setInterval(..., 1000)
TickPeriod == 1000

\* a session is in progress: started, and not yet stopped
Running ==
    isRunning /\ currentSession # None /\ ~Has(currentSession[1], "endTime")

\* stopped, the record pending until the metadata form is answered
AwaitingMetadata ==
    isRunning /\ currentSession # None /\ Has(currentSession[1], "endTime")

\* game, date and startTime of the in-progress session
InProgress ==
    IF currentSession = None THEN None
    ELSE Some(<<currentSession[1].game, currentSession[1].date,
                currentSession[1].startTime>>)

\* C8: a start() call while the timer is running is a no-op: it leaves the
\* timer running with startTime, the in-progress session, the interval handle
\* and the set of active intervals unchanged; and no step that leaves a
\* running timer running changes startTime or the game, date and startTime of
\* the in-progress session, or adds a periodic tick.
C8_SecondStartIsNoOp ==
    [][/\ (isRunning /\ StartTimer) =>
            /\ isRunning'
            /\ UNCHANGED <<startTime, elapsedTime, currentSession, sessions,
                           timerInterval, intervals, nextHandle>>
       /\ (isRunning /\ isRunning') =>
            /\ startTime' = startTime
            /\ InProgress' = InProgress
            /\ intervals' \subseteq intervals]_vars

\* start() was called again after a tick of the running session
C8_Witness ==
    /\ returnedEarly = "startTimer"
    /\ Running
    /\ elapsedTime > 0
    /\ Cardinality(intervals) = 1
    /\ startTime = Some(currentSession[1].startTime)

\* C9: the pending record of a session stopped less than a tick period after
\* its last tick carries durationMinutes = round((endTime - startTime) / 60000),
\* a half rounded up, endTime being the instant of the stop.
C9_DurationFromEndTime ==
    (/\ AwaitingMetadata
     /\ Cardinality(intervals) = 0
     /\ currentSession[1].endTime - (startTime[1] + elapsedTime) \in 0..(TickPeriod - 1))
    => currentSession[1].durationMinutes =
           MathRound(currentSession[1].endTime - currentSession[1].startTime)

\* C10: no record of the session collection, and no record of the collection
\* last sent to the store, has a negative durationMinutes.
C10_NoNegativeDuration ==
    /\ \A i \in 1..Len(sessions) :
          sessions[i] # JSNull => Minutes(sessions[i]) >= 0
    /\ posted # None =>
          \A i \in 1..Len(JSONParse(posted[1]).sessions) :
              JSONParse(posted[1]).sessions[i] # JSNull
                  => Minutes(JSONParse(posted[1]).sessions[i]) >= 0

\* a click on a button of the metadata form: submit (either form) or skip
MetadataAnswered ==
    \/ \E matchTypes \in MatchCountInputs : SaveValorantMetadata(matchTypes)
    \/ \E aimType \in AimTypeOptions : SaveKovaaksMetadata(aimType)
    \/ CancelMetadata

\* C11: from AwaitingMetadata, submitting or skipping the metadata form
\* appends exactly one record, the pending session with the submitted
\* metadata or with {} when skipped, and leaves the timer not running with
\* elapsed time 0; and a start() of a timer that is not running begins a new
\* session, running, started now and not ended.
C11_CompletionAppendsOne ==
    [][/\ (AwaitingMetadata /\ MetadataAnswered) =>
            /\ sessions' = Append(sessions, currentSession'[1])
            /\ \A f \in {"game", "date", "startTime", "endTime", "durationMinutes"} :
                  currentSession'[1][f] = currentSession[1][f]
            /\ CancelMetadata => currentSession'[1].metadata = EmptyObject
            /\ (\A matchTypes \in MatchCountInputs :
                  SaveValorantMetadata(matchTypes) =>
                      currentSession'[1].metadata = [matchTypes |-> matchTypes])
            /\ (\A aimType \in AimTypeOptions :
                  SaveKovaaksMetadata(aimType) =>
                      currentSession'[1].metadata = [aimType |-> aimType])
            /\ ~isRunning'
            /\ elapsedTime' = 0
       /\ (~isRunning /\ StartTimer) =>
            /\ isRunning'
            /\ currentSession'[1].startTime = now
            /\ ~Has(currentSession'[1], "endTime")
            /\ currentSession'[1].metadata = EmptyObject
            /\ sessions' = sessions]_vars

\* a stopped session was completed with submitted match counts and a second
\* session started after it
C11_Witness ==
    /\ Len(sessions) = 1
    /\ Has(sessions[1], "endTime")
    /\ Has(sessions[1].metadata, "matchTypes")
    /\ Running
    /\ currentSession[1].startTime > sessions[1].endTime
    /\ elapsedTime = 0
    /\ Cardinality(intervals) = 1

-----------------------------------------------------------------------------
(* Properties of the session store, under SpecStore *)

\* both records lack the field, or both have it with the same value
FieldEq(a, b, f) == (Has(a, f) <=> Has(b, f)) /\ (Has(a, f) => a[f] = b[f])

\* a load was answered, the stored collection being that of a successful save
LoadedAfterSave == out.op = "load" /\ coll # None

\* the date string is of the form YYYY-MM-DD or denotes a date
Loadable(session) == Len(session.date) = 3 \/ IsValidDate(session.date)

\* the canonical form of a date string: the UTC date of a timestamp
Canonical(date) == <<date[1], date[2], date[3]>>

-----------------------------------------------------------------------------
(* Properties of the tracker's load paths, under SpecLoad *)

\* a load of the tracker has completed successfully
LoadSucceeded ==
    out.op \in {"loadFromDatabase", "loadFromDefaultLocation"} /\ out.resolved # None

\* C13: when a load from the store has completed successfully, on either load
\* path, the in-memory collection is exactly the loaded collection, also when
\* that is empty.
C13_LoadReplaces ==
    LoadSucceeded => sessions = out.resolved[1]

-----------------------------------------------------------------------------
(* Properties of the save endpoint, under SpecStore *)

\* a save request was answered
SaveAnswered == \E body \in SaveBodies : PostSave(body)

\* C14: a save request answered 400 (sessions missing or not an array) or 500
\* (writing some record failed) leaves the stored collection exactly as it
\* was: the delete and the inserts take effect together or not at all.
C14_FailedSaveKeepsStore ==
    [][(SaveAnswered /\ out'.op = "save") =>
          /\ out'.status \in {200, 400, 500}
          /\ out'.status # 200 => (db' = db /\ lastId' = lastId)
          /\ (\E body \in SaveBodies :
                 PostSave(body) /\ body.kind # "array") => out'.status = 400
          /\ (\E body \in SaveBodies :
                 /\ PostSave(body)
                 /\ body.kind = "array"
                 /\ \E i \in 1..Len(body.sessions) : body.sessions[i] = JSNull)
             => out'.status = 500]_vars

\* a save whose second record is null was answered 500, a collection being
\* stored
C14_Witness ==
    /\ out.op = "save"
    /\ out.status = 500
    /\ Len(db) = 2
    /\ coll # None
    /\ Len(coll[1]) = 2

\* C15: every session of a load response has metadata that is an object and
\* a date of the form YYYY-MM-DD, whatever was stored.
C15_LoadedShape ==
    (out.op = "load" /\ out.status = 200) =>
        \A i \in 1..Len(out.sessions) :
            /\ IsObject(out.sessions[i].metadata)
            /\ Len(out.sessions[i].date) = 3
            /\ IsObject(ClientLoaded(out.sessions)[i].metadata)
            /\ Len(ClientLoaded(out.sessions)[i].date) = 3

\* C16: for every stored collection that load returns, the statistics of
\* GET /api/sessions/stats equal those generateSummaryStats computes on the
\* loaded collection: totalSessions, totalTimeMinutes, avgSessionMinutes,
\* gameBreakdown, match-type breakdown and aim-type breakdown.
C16_StatsAgree ==
    (out.op = "stats" /\ LoadEndpoint(db).status = 200) =>
        out.stats = generateSummaryStats(ClientLoaded(LoadEndpoint(db).sessions))

-----------------------------------------------------------------------------
(* Properties of the aggregator on unusable records, under SpecAgg *)

\* the metadata of the record is absent, is no object, or has neither
\* matchTypes nor aimType
Bare(session) ==
    \/ ~Has(session, "metadata")
    \/ ~IsObject(session.metadata)
    \/ ~Has(session.metadata, "matchTypes") /\ ~Has(session.metadata, "aimType")

NotBare(session) == ~Bare(session)

\* C17: generateSummaryStats returns for every collection with records whose
\* metadata is absent, no object or without matchTypes and aimType: such a
\* record is counted in totalSessions, its durationMinutes in totalTimeMinutes
\* and in the gameBreakdown entry of its game, and the match-type and aim-type
\* breakdowns are those of the collection without these records.
C17_BareRecordsCounted ==
    Summarized =>
        /\ out.stats.totalSessions = Len(coll)
        /\ out.stats.totalTimeMinutes = SumMinutes(coll, Indices(coll))
        /\ \A game \in KnownGames :
              out.stats.gameBreakdown[game] = Num(SumMinutes(coll, OfGame(coll, game)))
        /\ out.stats.valorantMatchTypes =
              generateSummaryStats(SelectSeq(coll, NotBare)).valorantMatchTypes
        /\ out.stats.kovaaksAimTypes =
              generateSummaryStats(SelectSeq(coll, NotBare)).kovaaksAimTypes

\* a kovaaks session whose metadata is a number, summarized with a kovaaks
\* session that carries an aim type
C17_Witness ==
    /\ Summarized
    /\ Len(coll) = 2
    /\ coll[1].game = "kovaaks"
    /\ Has(coll[1], "metadata")
    /\ ~IsObject(coll[1].metadata)
    /\ WithAimType(coll) = {2}
    /\ out.stats.gameBreakdown.kovaaks = Num(75)
    /\ out.stats.kovaaksAimTypes = [c \in {"tracking"} |-> 45]

\* C18: prepareDailyTrendData completes on a collection that contains a
\* record whose date string denotes no date, and every date of the other
\* records is among the dates it returns.
C18_MalformedDateRecovered ==
    out.op = "prepareDailyTrendData" =>
        /\ ~out.chartData.threw
        /\ \A i \in Indices(coll) :
              IsValidDate(coll[i].date) =>
                  \E k \in 1..Len(out.chartData.labels) :
                      out.chartData.labels[k] = Canonical(coll[i].date)

\* C19: at most one periodic tick is active, and a tick is active only while
\* a session is running and not yet stopped.
C19_OneTickWhileRunning ==
    /\ Cardinality(intervals) <= 1
    /\ intervals # {} => Running


\* C20: the alarm is latched. Between one effective start and the next the
\* alarm is raised at most once: a tick that finds the latch set raises
\* nothing, dismissing the alarm leaves the latch set, and only an effective
\* start clears the latch and opens a new count.
C20_AlarmLatched ==
    [][ /\ alarmCount' <= 1
        /\ alarmCount' > alarmCount => (UpdateTimer /\ ~alarmTriggered)
        /\ (UpdateTimer /\ alarmTriggered) =>
              UNCHANGED <<alarmTriggered, alarmCount>>
        /\ DismissAlarm => UNCHANGED <<alarmTriggered, alarmCount>>
        /\ (alarmTriggered /\ ~alarmTriggered') => (StartTimer /\ ~isRunning)
        /\ (StartTimer /\ ~isRunning) =>
              (~alarmTriggered' /\ alarmCount' = 0) ]_vars

\* the second kovaaks session of the page: its alarm was raised once and
\* dismissed, and a later tick found the threshold still reached
C20_Witness ==
    /\ nextHandle = 3
    /\ Running
    /\ alarmTriggered
    /\ ~alarmShown
    /\ alarmCount = 1
    /\ elapsedTime > 0
    /\ elapsedTime = now - startTime[1]
    /\ currentSession[1].game = "kovaaks"
    /\ todayKovaaksMinutes(elapsedTime) >= hourlyAlarmThreshold


\* the timer is idle: no session is in progress
Idle == ~isRunning

\* (sum of durationMinutes of the completed kovaaks sessions dated today) +
\* (whole minutes elapsed in the in-progress session), at the present instant
TodayTotal ==
    SumMinutes(sessions,
               {i \in Indices(sessions) :
                   /\ sessions[i] # JSNull
                   /\ sessions[i].game = "kovaaks"
                   /\ sessions[i].date = DateOfInstant(now)})
    + (now - startTime[1]) \div MsPerMinute

\* C21: after a tick of a Running kovaaks session at which today's total is
\* at least 60 the alarm has been raised, and a tick raises the alarm only
\* for a Running kovaaks session whose total is at least 60: never below 60,
\* never for a valorant session, never while Idle or AwaitingMetadata.
C21_AlarmAtThreshold ==
    [][ UpdateTimer =>
          /\ (Running /\ currentSession[1].game = "kovaaks"
                /\ TodayTotal >= hourlyAlarmThreshold) => alarmTriggered'
          /\ alarmCount' > alarmCount =>
                /\ Running
                /\ currentSession[1].game = "kovaaks"
                /\ TodayTotal >= hourlyAlarmThreshold ]_vars


\* C22: dismissing the alarm only hides the notification: the alarm latch,
\* the running state, startTime, elapsed time, the periodic tick, the
\* in-progress session and the session collection are as before.
C22_DismissOnlySilences ==
    [][ (DismissAlarm \/ (alarmShown /\ ~alarmShown')) =>
          /\ ~alarmShown'
          /\ UNCHANGED <<alarmTriggered, isRunning, startTime, elapsedTime,
                         timerInterval, intervals, currentSession, sessions>> ]_vars

\* the alarm of the first session of the page, dismissed while the session
\* runs on with its tick
C22_Witness ==
    /\ nextHandle = 2
    /\ Running
    /\ alarmTriggered
    /\ ~alarmShown
    /\ intervals = {timerInterval[1]}
    /\ sessions = JSONParse(HourCached[1])


\* the state stop() leaves: the tick cancelled, endTime and durationMinutes
\* of the in-progress session captured, the metadata form displayed
StopEffect ==
    /\ intervals' = intervals \ {timerInterval[1]}
    /\ currentSession' # None
    /\ Has(currentSession'[1], "endTime")
    /\ currentSession'[1].endTime = now
    /\ currentSession'[1].durationMinutes = MathRound(elapsedTime)
    /\ InProgress' = InProgress
    /\ metadataShown'
    /\ UNCHANGED <<isRunning, startTime, elapsedTime, timerInterval,
                   alarmTriggered, alarmShown, Len(sessions)>>

\* an effective start: startTimer() called while not running
EffectiveStart == StartTimer /\ ~isRunning

\* C23: a change of the selected game while a session is Running or
\* AwaitingMetadata is decided by the confirmation. Declined, the selection
\* is the in-progress session's game again and timer state, in-progress
\* session and collection are unchanged; confirmed, the step is a stop().
\* The in-progress session keeps the game it was started with, and the
\* record appended is that session.
C23_GameSwitchConfirmed ==
    [][ /\ \A game \in GameOptions :
              (isRunning /\ ChangeGame(game, FALSE)) =>
                  /\ gameSelect' = currentSession[1].game
                  /\ UNCHANGED <<isRunning, startTime, elapsedTime,
                                 timerInterval, intervals, metadataShown,
                                 currentSession, sessions>>
        /\ \A game \in GameOptions :
              (isRunning /\ ChangeGame(game, TRUE) /\ gameSelect' = game) =>
                  StopEffect
        /\ EffectiveStart => currentSession'[1].game = gameSelect
        /\ (currentSession # None /\ ~EffectiveStart) =>
              /\ currentSession' # None
              /\ currentSession'[1].game = currentSession[1].game
        /\ (currentSession # None /\ Len(sessions') = Len(sessions) + 1) =>
              sessions'[Len(sessions')].game = currentSession[1].game ]_vars

\* a session stopped by a confirmed switch to the other game
C23_Witness ==
    /\ AwaitingMetadata
    /\ metadataShown
    /\ gameSelect # currentSession[1].game
    /\ intervals = {}


\* C24: a record appended to the session collection is immutable: no timer
\* operation changes a field of an element the collection already holds.
C24_AppendedImmutable ==
    [][ \A i \in Indices(sessions) :
            i <= Len(sessions') /\ sessions'[i] = sessions[i] ]_vars


\* the collection the local cache holds
Cached == loadSessionsFromLocalStorage(localStorage)

\* a session completion: completeSession() has pushed and sent the save
Completion == Len(SaveRequests') = Len(SaveRequests) + 1

\* C25: the local cache mirrors the in-memory collection. After every session
\* completion and after every load that succeeded the cache holds exactly the
\* in-memory collection, whatever becomes of the save; after a load that
\* failed the in-memory collection is the collection cached last.
C25_CacheMirrors ==
    [][ /\ Completion => Cached' = sessions'
        /\ \A k \in 1..Len(network) :
              ReceiveLoad(k) =>
                  IF network[k].resolved # None
                  THEN Cached' = sessions'
                  ELSE sessions' = Cached /\ Cached' = Cached ]_vars


\* a session was completed and cached while its save failed, and then the
\* load of loadFromDefaultLocation() failed too: the collection in memory is
\* the cached one, the completed session in it
C25_Witness ==
    /\ \E k \in 1..Len(network) :
          /\ network[k].kind = "save"
          /\ network[k].state = "done"
          /\ network[k].status = 0
    /\ \E k \in 1..Len(network) :
          /\ network[k].kind = "load"
          /\ network[k].from = "loadFromDefaultLocation"
          /\ network[k].state = "done"
          /\ network[k].status = 0
          /\ \E j \in 1..(k - 1) : network[j].kind = "save"
    /\ Len(sessions) >= 1
    /\ sessions = Cached
    /\ db = <<>>


\* C26: a stop() while the timer is AwaitingMetadata, by the End button or
\* by a confirmed game switch, leaves the pending record as the first stop()
\* made it: endTime and durationMinutes keep their values.
C26_SecondStopKeepsRecord ==
    [][ (AwaitingMetadata
           /\ (ShowMetadataForm \/ \E game \in GameOptions : ChangeGame(game, TRUE)))
        => UNCHANGED currentSession ]_vars


\* C27: the metadata handlers take effect in AwaitingMetadata only. Invoked
\* while the timer is Idle or Running they leave the session collection
\* unchanged, and so the collection never holds a null entry, a record
\* without endTime, or the same session twice.
C27_HandlersOnlyWhenAwaiting ==
    [][ /\ (MetadataAnswered /\ ~AwaitingMetadata) => UNCHANGED sessions
        /\ \A i \in Indices(sessions') :
              /\ sessions'[i] # JSNull
              /\ Has(sessions'[i], "endTime")
        /\ Cardinality(aliased') <= 1 ]_vars


\* the requests that are not settled yet: sent and not answered, or answered
\* and not received by the page
InFlight == {k \in 1..Len(network) : network[k].state # "done"}

\* no request has failed so far
NoneFailed == \A k \in 1..Len(network) \ InFlight : network[k].status = 200

\* the sessions the timer completed: the one each completion pushed last
CompletedSessions ==
    { LET ss == JSONParse(network[k].body).sessions IN ss[Len(ss)] :
        k \in {j \in 1..Len(network) : network[j].kind = "save"} } \ {JSNull}

\* a and b are the same session: game, date, start, end and duration agree
SameSession(a, b) ==
    /\ a # JSNull
    /\ b # JSNull
    /\ \A f \in {"game", "date", "startTime", "endTime", "durationMinutes"} :
          /\ Has(a, f) <=> Has(b, f)
          /\ Has(a, f) => a[f] = b[f]

InMemory(s) == \E i \in Indices(sessions) : SameSession(sessions[i], s)

InStore(s) == \E i \in Indices(db) : SameSession(db[i], s)

\* C28 as stated: once all requests have succeeded, every session the timer
\* completed is in the in-memory collection and in the stored collection,
\* in whatever order the requests were processed and received.
C28_AsStated ==
    (InFlight = {} /\ NoneFailed) =>
        \A s \in CompletedSessions : InMemory(s) /\ InStore(s)

\* s is among the sessions ss
Among(s, ss) == \E i \in Indices(ss) : SameSession(ss[i], s)

\* nothing is lost so far: every completed session is in memory, in the
\* body of a save on its way, in the response of a load on its way, and in
\* the store once no save is in flight
NothingLost ==
    /\ \A s \in CompletedSessions : InMemory(s)
    /\ \A k \in InFlight :
          /\ network[k].kind = "save" =>
                \A s \in CompletedSessions :
                    Among(s, JSONParse(network[k].body).sessions)
          /\ (network[k].state = "answered" /\ network[k].resolved # None) =>
                \A s \in CompletedSessions : Among(s, network[k].resolved[1])
    /\ (\A k \in InFlight : network[k].kind # "save") =>
          \A s \in CompletedSessions : InStore(s)

\* C28: while no two requests are in flight together and none fails, no
\* completed session is lost: every step keeps every completed session in
\* the in-memory collection and in what is on its way, and the session is in
\* the store once its save is processed.
C28_NoLossOneAtATime ==
    [][ (/\ Cardinality(InFlight) <= 1
         /\ Cardinality(InFlight') <= 1
         /\ NoneFailed'
         /\ NothingLost) => NothingLost' ]_vars

\* two sessions completed one request at a time, each saved with success
\* after both loads of the startup: both are in memory and in the store
C28_Witness ==
    /\ Len(network) = 4
    /\ InFlight = {}
    /\ NoneFailed
    /\ network[2].kind = "load"
    /\ Cardinality(CompletedSessions) = 2
    /\ NothingLost
    /\ Len(db) = 2
    /\ Len(sessions) = 2


-----------------------------------------------------------------------------
(* start-app.js: the desktop launcher *)

maxAttempts == 10

\* the codes Electron exits with
ElectronCodes == {0, 1}

\* serverProcess.kill(): a child that is alive is terminated
Killed == IF serverProcess \in {"starting", "listening"} THEN "killed"
          ELSE serverProcess

LauncherPageUnchanged ==
    UNCHANGED <<coll, out, db, lastId, now, isRunning, startTime, elapsedTime,
                currentSession, sessions, timerInterval, intervals, nextHandle,
                alarmTriggered, alarmShown, alarmCount, gameSelect,
                metadataShown, localStorage, aliased, posted, network,
                returnedEarly>>

\* server.js reaches app.listen
ServerListens ==
    /\ serverProcess = "starting"
    /\ serverProcess' = "listening"
    /\ UNCHANGED <<electronProcess, launcherPc, attempts, isReady, exitCode>>
    /\ LauncherPageUnchanged

\* the server child ends by itself
ServerExits ==
    /\ serverProcess \in {"starting", "listening"}
    /\ serverProcess' = "exited"
    /\ UNCHANGED <<electronProcess, launcherPc, attempts, isReady, exitCode>>
    /\ LauncherPageUnchanged

RetryTimeoutNoLimit ==
    /\ launcherPc = "sleep"
    /\ attempts' = IF attempts < maxAttempts THEN attempts + 1 ELSE attempts
    /\ launcherPc' = "check"
    /\ UNCHANGED <<serverProcess, electronProcess, isReady, exitCode>>
    /\ LauncherPageUnchanged

\* the request of checkServer() settles: a response resolves true, the loop
\* ends and the then of waitForServer() spawns Electron; an error resolves
\* false and the loop sleeps
CheckServer ==
    /\ launcherPc = "check"
    /\ IF serverProcess = "listening"
       THEN /\ isReady' = TRUE
            /\ electronProcess' = "running"
            /\ launcherPc' = "electron"
       ELSE /\ isReady' = FALSE
            /\ launcherPc' = "sleep"
            /\ UNCHANGED electronProcess
    /\ UNCHANGED <<serverProcess, attempts, exitCode>>
    /\ LauncherPageUnchanged

\* the setTimeout of the loop fires: attempts++, and the loop either checks
\* again or ends with isReady false, which is process.exit(1)
RetryTimeout ==
    /\ launcherPc = "sleep"
    /\ attempts' = attempts + 1
    /\ IF attempts + 1 < maxAttempts
       THEN launcherPc' = "check" /\ UNCHANGED exitCode
       ELSE launcherPc' = "exited" /\ exitCode' = Some(1)
    /\ UNCHANGED <<serverProcess, electronProcess, isReady>>
    /\ LauncherPageUnchanged

\* the close event of the Electron child: the server is killed and the
\* launcher exits with Electron's code
ElectronClose(code) ==
    /\ launcherPc = "electron"
    /\ electronProcess = "running"
    /\ electronProcess' = "closed"
    /\ serverProcess' = Killed
    /\ launcherPc' = "exited"
    /\ exitCode' = Some(code)
    /\ UNCHANGED <<attempts, isReady>>
    /\ LauncherPageUnchanged

\* SIGINT: the server is killed and the launcher exits with 0
Sigint ==
    /\ launcherPc # "exited"
    /\ serverProcess' = Killed
    /\ launcherPc' = "exited"
    /\ exitCode' = Some(0)
    /\ UNCHANGED <<electronProcess, attempts, isReady>>
    /\ LauncherPageUnchanged

\* the launcher has spawned the server and calls waitForServer()
LauncherInit ==
    /\ serverProcess = "starting"
    /\ electronProcess = "none"
    /\ launcherPc = "check"
    /\ attempts = 0
    /\ isReady = FALSE
    /\ exitCode = None
    /\ Constructed(None)
    /\ coll = <<>>
    /\ out = [op |-> "none"]
    /\ db = <<>>
    /\ lastId = 0

LauncherNext ==
    \/ ServerListens
    \/ ServerExits
    \/ CheckServer
    \/ RetryTimeout
    \/ \E code \in ElectronCodes : ElectronClose(code)
    \/ Sigint

SpecLauncher == LauncherInit /\ [][LauncherNext]_vars

\* the event loop of the launcher runs: a request settles, a timeout fires
SpecLauncherFair ==
    /\ SpecLauncher
    /\ WF_vars(CheckServer)
    /\ WF_vars(RetryTimeout)


\* the launcher is waiting for the server: checking, or sleeping between
\* two checks
Waiting == launcherPc \in {"check", "sleep"}

\* C29: Electron is started only after a readiness check succeeded, and the
\* waiting always ends: the tenth failed check in a row makes the launcher
\* exit with code 1, Electron never started.
C29_WaitingEnds ==
    /\ [](electronProcess # "none" => isReady)
    /\ [][ (RetryTimeout /\ attempts + 1 = maxAttempts) =>
              /\ launcherPc' = "exited"
              /\ exitCode' = Some(1)
              /\ electronProcess' = "none" ]_vars
    /\ [](Waiting => attempts < maxAttempts)
    /\ <>(~Waiting)

\* ten checks failed: the launcher has exited with code 1 and Electron was
\* not started
C29_Witness ==
    /\ launcherPc = "exited"
    /\ attempts = maxAttempts
    /\ exitCode = Some(1)
    /\ ~isReady
    /\ electronProcess = "none"

\* C30: when the launcher has exited, the server child it spawned is not
\* alive: it was killed before the exit, or had ended by itself.
C30_NoServerOutlivesLauncher ==
    launcherPc = "exited" => serverProcess \notin {"starting", "listening"}

====
